---- MODULE Spec2Model ----
(***************************************************************************)
(* Model of efficientdet/bifpn.py: Resize, FastFusion, BiFPNBlock, BiFPN.  *)
(*                                                                         *)
(* A feature map is a record [shape, id]: shape is the tuple <<batch,      *)
(* height, width, channels>> (1-indexed here, 0-indexed in Python) and id  *)
(* abstracts the tensor's content as one integer.  Layers of the tensor    *)
(* library are modelled by their effect on shape and content: image resize *)
(* sets height and width, a convolution with `filters` output filters sets *)
(* the channel count and mixes the content with the layer's kernel.        *)
(* Weights are integers in units of EPSILON (1e-5).                        *)
(***************************************************************************)
EXTENDS Integers, Sequences, FiniteSets, TLC

\* ------------------------------------------------------------- bounds
MaxDim == 2
MaxBlocks == 2
WMax == 2
ValMod == 97

Dims == 1..MaxDim
Batches == {1, 2}
Channels == {1, 2}
Seeds == {1, 2}
Sizes == {2, 3}
WVals == (0 - WMax)..WMax

\* EPSILON = 1e-5, the unit in which weights are counted
EPSILON == 1

\* ------------------------------------------------------------- values
NaN == 0 - 1
FMap(shape, id) == [shape |-> shape, id |-> id]
\* an unbound local / no value
None == [shape |-> <<>>, id |-> 0 - 2]
\* the value standing for a raised exception
Raised == [shape |-> <<>>, id |-> 0 - 3]
IsMap(m) == Len(m.shape) = 4

RECURSIVE SeqSum(_)
SeqSum(s) == IF s = <<>> THEN 0 ELSE Head(s) + SeqSum(Tail(s))

\* content mixing of a learned layer with kernel k (NaN propagates)
Mix(k, v) == IF v = NaN THEN NaN ELSE (k + 3 * v) % ValMod
\* float division: a zero denominator yields inf/NaN, not an exception
Div(a, b) == IF b = 0 THEN NaN ELSE a \div b

\* ------------------------------------------------------------- Resize
\* conv_cls(features, kernel=1): a convolution with `features` filters, the
\* arguments taken by their evident meaning (a 1x1 kernel); whether the tensor
\* library accepts this construction is outside the model
ResizeNew(features, seed) ==
  [pixel_wise |-> [filters |-> features, kernel |-> seed]]

\* dims = target_dim[1: 3]
ResizeDimsSwapped(target_dim) == <<target_dim[3], target_dim[2]>>
ResizeDims(target_dim) == <<target_dim[2], target_dim[3]>>

\* tf.image.resize(images, dims)
ImageResize(images, dims) ==
  [images EXCEPT !.shape = <<@[1], dims[1], dims[2], @[4]>>]

\* self.pixel_wise(x)
Conv(layer, x) ==
  [shape |-> <<x.shape[1], x.shape[2], x.shape[3], layer.filters>>,
   id |-> Mix(layer.kernel, x.id)]

\* Resize.call with its local x kept
ResizeLocalsProjectFirst(self, images, target_dim) ==
  LET dims == ResizeDims(target_dim)
      x == Conv(self.pixel_wise, images)
  IN [x |-> x, out |-> ImageResize(x, dims)]
ResizeLocals(self, images, target_dim) ==
  LET dims == ResizeDims(target_dim)
      x == ImageResize(images, dims)
  IN [x |-> x, out |-> Conv(self.pixel_wise, x)]

ResizeCall(self, images, target_dim) == ResizeLocals(self, images, target_dim).out

\* ------------------------------------------------------------- FastFusion
\* w_init((size,)): the initial weights, drawn by seed
WInit(size, uid, seed) ==
  [i \in 1..size |-> ((seed * uid + i) % (2 * WMax + 1)) - WMax]

FastFusionNew(size, features, uid, seed) ==
  [size |-> size,
   w |-> WInit(size, uid, seed),
   conv |-> [filters |-> features, kernel |-> uid],
   resize |-> ResizeNew(features, uid + seed),
   uid |-> uid]

\* self.relu
ReluIdentity(v) == v
Relu(v) == IF v > 0 THEN v ELSE 0

\* the reference shape handed to self.resize: inputs[0].shape
FusionTargetLast(inputs) == inputs[Len(inputs)].shape
FusionTarget(inputs) == inputs[1].shape

\* the caller's list after line 38: inputs[-1] = self.resize(...)
AlignLastKeep(self, inputs) == inputs
AlignLast(self, inputs) ==
  [inputs EXCEPT ![Len(inputs)] =
     ResizeCall(self.resize, inputs[Len(inputs)], FusionTarget(inputs))]

\* w = self.relu(self.w)
ActivatedWeightsRaw(self) == self.w
ActivatedWeights(self) == [i \in 1..self.size |-> Relu(self.w[i])]

\* FastFusion.call: the result, the caller's list after the call, and the
\* locals w and w_sum
FastFusionCall(self, inputs) ==
  IF Len(inputs) = 0
  THEN [out |-> Raised, inputs |-> inputs, w |-> <<>>, w_sum |-> 0]
  ELSE
    LET ins == AlignLast(self, inputs)
        w == ActivatedWeights(self)
        w_sum == EPSILON + SeqSum(w)
        \* w[i] * inputs[i] for i in range(self.size), stacked by map_fn
        stackable == /\ self.size <= Len(ins)
                     /\ \A i \in 1..self.size : ins[i].shape = ins[1].shape
        weighted_sum == SeqSum([i \in 1..self.size |->
                                   IF ins[i].id = NaN THEN 0 ELSE w[i] * ins[i].id])
        anyNaN == \E i \in 1..self.size : ins[i].id = NaN
        fused == IF anyNaN THEN NaN ELSE Div(weighted_sum, w_sum)
    IN IF ~stackable
       THEN [out |-> Raised, inputs |-> ins, w |-> w, w_sum |-> w_sum]
       ELSE [out |-> Conv(self.conv, FMap(ins[1].shape, fused)),
             inputs |-> ins, w |-> w, w_sum |-> w_sum]

\* ------------------------------------------------------------- BiFPNBlock
UnitNames == <<"ff_6_td", "ff_5_td", "ff_4_td", "ff_7_out",
               "ff_6_out", "ff_5_out", "ff_4_out", "ff_3_out">>
UnitsPerBlock == Len(UnitNames)

\* BiFPNBlock.__init__: eight FastFusion units, each its own object (uid)
BiFPNBlockNewShort6(features, b, seed) ==
  LET u(j) == (b - 1) * UnitsPerBlock + j
  IN [ff_6_td |-> FastFusionNew(2, features, u(1), seed),
      ff_5_td |-> FastFusionNew(2, features, u(2), seed),
      ff_4_td |-> FastFusionNew(2, features, u(3), seed),
      ff_7_out |-> FastFusionNew(2, features, u(4), seed),
      ff_6_out |-> FastFusionNew(2, features, u(5), seed),
      ff_5_out |-> FastFusionNew(3, features, u(6), seed),
      ff_4_out |-> FastFusionNew(3, features, u(7), seed),
      ff_3_out |-> FastFusionNew(2, features, u(8), seed)]
BiFPNBlockNew(features, b, seed) ==
  LET u(j) == (b - 1) * UnitsPerBlock + j
  IN [ff_6_td |-> FastFusionNew(2, features, u(1), seed),
      ff_5_td |-> FastFusionNew(2, features, u(2), seed),
      ff_4_td |-> FastFusionNew(2, features, u(3), seed),
      ff_7_out |-> FastFusionNew(2, features, u(4), seed),
      ff_6_out |-> FastFusionNew(3, features, u(5), seed),
      ff_5_out |-> FastFusionNew(3, features, u(6), seed),
      ff_4_out |-> FastFusionNew(3, features, u(7), seed),
      ff_3_out |-> FastFusionNew(2, features, u(8), seed)]

InputNames == <<"P3", "P4", "P5", "P6", "P7">>
OutputNames == <<"P3_out", "P4_out", "P5_out", "P6_out", "P7_out">>
LocalNames == {"P3", "P4", "P5", "P6", "P7", "P6_td", "P5_td", "P4_td",
               "P3_out", "P4_out", "P5_out", "P6_out", "P7_out"}

Stmt(target, unit, operands) ==
  [target |-> target, unit |-> unit, args |-> operands]

\* the statements of BiFPNBlock.call, lines 97-106, in program order
BlockProgramP7FromP5 ==
  << Stmt("P6_td", "ff_6_td", <<"P6", "P7">>),
     Stmt("P5_td", "ff_5_td", <<"P5", "P6_td">>),
     Stmt("P4_td", "ff_4_td", <<"P4", "P5_td">>),
     Stmt("P3_out", "ff_3_out", <<"P3", "P4_td">>),
     Stmt("P4_out", "ff_4_out", <<"P4", "P4_td", "P3_out">>),
     Stmt("P5_out", "ff_5_out", <<"P5", "P5_td", "P4_out">>),
     Stmt("P6_out", "ff_6_out", <<"P6", "P6_td", "P5_out">>),
     Stmt("P7_out", "ff_7_out", <<"P7", "P5_td">>) >>
BlockProgram ==
  << Stmt("P6_td", "ff_6_td", <<"P6", "P7">>),
     Stmt("P5_td", "ff_5_td", <<"P5", "P6_td">>),
     Stmt("P4_td", "ff_4_td", <<"P4", "P5_td">>),
     Stmt("P3_out", "ff_3_out", <<"P3", "P4_td">>),
     Stmt("P4_out", "ff_4_out", <<"P4", "P4_td", "P3_out">>),
     Stmt("P5_out", "ff_5_out", <<"P5", "P5_td", "P4_out">>),
     Stmt("P6_out", "ff_6_out", <<"P6", "P6_td", "P5_out">>),
     Stmt("P7_out", "ff_7_out", <<"P7", "P6_td">>) >>

\* P3, P4, P5, P6, P7 = inputs
Unpack(inputs) ==
  [n \in LocalNames |->
     IF \E i \in 1..Len(InputNames) : InputNames[i] = n
     THEN inputs[CHOOSE i \in 1..Len(InputNames) : InputNames[i] = n]
     ELSE None]

\* return P3_out, P4_out, P5_out, P6_out, P7_out
BlockReturnValue(locals) ==
  [i \in 1..Len(OutputNames) |-> locals[OutputNames[i]]]

\* BiFPNBlock.call as a function of its input pyramid (Raised if a fusion
\* raises or the pyramid does not unpack into five maps)
FF(self, inputs) ==
  IF \E i \in 1..Len(inputs) : ~IsMap(inputs[i])
  THEN Raised
  ELSE FastFusionCall(self, inputs).out

BiFPNBlockCall(self, inputs) ==
  IF Len(inputs) # Len(InputNames)
  THEN <<Raised>>
  ELSE
    LET P3 == inputs[1]
        P4 == inputs[2]
        P5 == inputs[3]
        P6 == inputs[4]
        P7 == inputs[5]
        P6_td == FF(self.ff_6_td, <<P6, P7>>)
        P5_td == FF(self.ff_5_td, <<P5, P6_td>>)
        P4_td == FF(self.ff_4_td, <<P4, P5_td>>)
        P3_out == FF(self.ff_3_out, <<P3, P4_td>>)
        P4_out == FF(self.ff_4_out, <<P4, P4_td, P3_out>>)
        P5_out == FF(self.ff_5_out, <<P5, P5_td, P4_out>>)
        P6_out == FF(self.ff_6_out, <<P6, P6_td, P5_out>>)
        P7_out == FF(self.ff_7_out, <<P7, P6_td>>)
        res == <<P3_out, P4_out, P5_out, P6_out, P7_out>>
    IN IF \E i \in 1..5 : ~IsMap(res[i]) THEN <<Raised>> ELSE res

\* ------------------------------------------------------------- BiFPN
\* BiFPN.__init__: self.blocks = [BiFPNBlock(features) for i in range(n_blocks)]
BiFPNNew(features, n_blocks, seed) ==
  [features |-> features,
   blocks |-> [b \in 1..n_blocks |-> BiFPNBlockNew(features, b, seed)]]

\* for block in self.blocks: the blocks in iteration order
LoopBlocksReversed(self) ==
  [i \in 1..Len(self.blocks) |-> self.blocks[Len(self.blocks) + 1 - i]]
LoopBlocks(self) == self.blocks

\* ------------------------------------------------------------- state
VARIABLES
  model,    \* the BiFPN object
  pyr_in,   \* the pyramid passed to BiFPN.call
  x,        \* BiFPN.call's local x
  blk,      \* number of loop iterations of BiFPN.call entered so far
  ip,       \* BiFPNBlock.call: index of the next statement of lines 97-106
  pc,       \* position of the running call
  loc,      \* BiFPNBlock.call's locals
  calls,    \* the FastFusion calls made by the running block, in order
  applied,  \* uid of the first unit of each block that has returned
  ret,      \* BiFPN.call's return value
  ff,       \* a FastFusion object used on its own
  fcall,    \* its last call: arguments before and after, result, locals
  rcall     \* the last call of its Resize: arguments, local x, result

vars == <<model, pyr_in, x, blk, ip, pc, loc, calls, applied, ret,
          ff, fcall, rcall>>

bifpnVars == <<model, pyr_in, x, blk, ip, pc, loc, calls, applied, ret>>
bifpnVarsButPc == <<model, pyr_in, x, blk, ip, loc, calls, applied, ret>>
fusionVars == <<ff, fcall, rcall>>

NoModel == [features |-> 0, blocks |-> <<>>]
NoUnit == [size |-> 0, w |-> <<>>, conv |-> [filters |-> 0, kernel |-> 0],
           resize |-> ResizeNew(0, 0), uid |-> 0]
NoCall == [args0 |-> <<>>, args |-> <<>>, out |-> None, w |-> <<>>, w_sum |-> 0]
NoResize == [images |-> None, target_dim |-> <<>>, x |-> None, out |-> None]
NoLocals == [n \in LocalNames |-> None]

\* the pyramids fed to the model: five maps of one batch size and channel
\* count, resolution not increasing from P3 to P7
Pyramids ==
  { [i \in 1..5 |-> FMap(<<b, hs[i], ws[i], c>>, i + 2)] :
      b \in Batches, c \in Channels,
      hs \in {s \in [1..5 -> Dims] : \A i \in 1..4 : s[i] >= s[i + 1]},
      ws \in {s \in [1..5 -> Dims] : \A i \in 1..4 : s[i] >= s[i + 1]} }

\* ------------------------------------------------------------- BiFPN run
Init ==
  /\ \E features \in Channels, n_blocks \in 0..MaxBlocks, seed \in Seeds :
       model = BiFPNNew(features, n_blocks, seed)
  /\ pyr_in = <<>> /\ x = <<>> /\ blk = 0 /\ ip = 0 /\ pc = "idle"
  /\ loc = NoLocals /\ calls = <<>> /\ applied = <<>> /\ ret = <<>>
  /\ ff = NoUnit /\ fcall = NoCall /\ rcall = NoResize

\* BiFPN.call entered: x = inputs
BiFPNCall ==
  /\ pc = "idle"
  /\ \E inputs \in Pyramids : pyr_in' = inputs /\ x' = inputs
  /\ pc' = "loop"
  /\ UNCHANGED <<model, blk, ip, loc, calls, applied, ret, ff, fcall, rcall>>

\* the loop takes its next block and enters BiFPNBlock.call (line 93)
BlockEnter ==
  /\ pc = "loop"
  /\ blk < Len(LoopBlocks(model))
  /\ blk' = blk + 1
  /\ calls' = <<>>
  /\ IF Len(x) = Len(InputNames)
     THEN loc' = Unpack(x) /\ ip' = 1 /\ pc' = "block"
     ELSE loc' = NoLocals /\ ip' = 0 /\ pc' = "raised"
  /\ UNCHANGED <<model, pyr_in, x, applied, ret, ff, fcall, rcall>>

\* one statement of lines 97-106: a FastFusion unit called on a fresh list
BlockFuse ==
  /\ pc = "block"
  /\ LET self == LoopBlocks(model)[blk]
         stmt == BlockProgram[ip]
         unit == self[stmt.unit]
         inputs == [i \in 1..Len(stmt.args) |-> loc[stmt.args[i]]]
         r == FastFusionCall(unit, inputs)
     IN /\ calls' = Append(calls, [unit |-> stmt.unit, uid |-> unit.uid,
                                   size |-> unit.size, inputs |-> inputs,
                                   out |-> r.out])
        /\ IF r.out = Raised
           THEN pc' = "raised" /\ UNCHANGED <<loc, ip>>
           ELSE /\ loc' = [loc EXCEPT ![stmt.target] = r.out]
                /\ ip' = ip + 1
                /\ pc' = IF ip = Len(BlockProgram) THEN "block_ret" ELSE "block"
  /\ UNCHANGED <<model, pyr_in, x, blk, applied, ret, ff, fcall, rcall>>

\* line 108 and x = block(x)
BlockReturn ==
  /\ pc = "block_ret"
  /\ x' = BlockReturnValue(loc)
  /\ applied' = Append(applied, LoopBlocks(model)[blk].ff_6_td.uid)
  /\ pc' = "loop"
  /\ UNCHANGED <<model, pyr_in, blk, ip, loc, calls, ret, ff, fcall, rcall>>

\* the loop is exhausted: return x
BiFPNReturn ==
  /\ pc = "loop"
  /\ blk >= Len(LoopBlocks(model))
  /\ ret' = x
  /\ pc' = "done"
  /\ UNCHANGED <<model, pyr_in, x, blk, ip, loc, calls, applied, ff, fcall, rcall>>

Next == BiFPNCall \/ BlockEnter \/ BlockFuse \/ BlockReturn \/ BiFPNReturn

Spec == Init /\ [][Next]_vars

\* ------------------------------------------------------------- a FastFusion on its own
Shapes == { <<b, h, w, c>> : b \in Batches, h \in Dims, w \in Dims, c \in Channels }

\* a list of feature maps of the given shapes, content numbered by position
FusionInputs(shapes) == [i \in DOMAIN shapes |-> FMap(shapes[i], i)]

\* lists a trained unit is called on: as many maps as the unit fuses, of its
\* channel count, all but the last 2x2, the last 2x2 or 1x1
AlignedInputs(self) ==
  { [i \in 1..self.size |->
       FMap(IF i = self.size THEN <<1, d, d, self.conv.filters>>
                             ELSE <<1, 2, 2, self.conv.filters>>, i)] :
      d \in {1, 2} }

FusionRecord(self, inputs) ==
  LET r == FastFusionCall(self, inputs)
  IN [args0 |-> inputs, args |-> r.inputs, out |-> r.out,
      w |-> r.w, w_sum |-> r.w_sum]

InitFusion ==
  /\ \E size \in Sizes, features \in Channels, seed \in Seeds :
       ff = FastFusionNew(size, features, 1, seed)
  /\ fcall = NoCall /\ rcall = NoResize /\ pc = "idle"
  /\ model = NoModel /\ pyr_in = <<>> /\ x = <<>> /\ blk = 0 /\ ip = 0
  /\ loc = NoLocals /\ calls = <<>> /\ applied = <<>> /\ ret = <<>>

\* FastFusion.call on any list of 2 or 3 maps, which the caller keeps
FusionCall ==
  /\ pc = "idle"
  /\ \E n \in Sizes : \E shapes \in [1..n -> Shapes] :
       fcall' = FusionRecord(ff, FusionInputs(shapes))
  /\ pc' = "called"
  /\ UNCHANGED <<ff, rcall>>
  /\ UNCHANGED bifpnVarsButPc

\* Resize.call of the unit's Resize on any map and reference shape
ResizeCallAny ==
  /\ pc = "idle"
  /\ \E images \in { FMap(s, 1) : s \in Shapes }, target_dim \in Shapes :
       LET r == ResizeLocals(ff.resize, images, target_dim)
       IN rcall' = [images |-> images, target_dim |-> target_dim,
                    x |-> r.x, out |-> r.out]
  /\ pc' = "resized"
  /\ UNCHANGED <<ff, fcall>>
  /\ UNCHANGED bifpnVarsButPc

NextFusion == FusionCall \/ ResizeCallAny

SpecFusion == InitFusion /\ [][NextFusion]_vars

\* ------------------------------------------------------------- training
\* the optimizer assigns self.w any values
Train ==
  /\ \E w \in [1..ff.size -> WVals] : ff' = [ff EXCEPT !.w = w]
  /\ fcall' = NoCall
  /\ pc' = "idle"
  /\ UNCHANGED rcall
  /\ UNCHANGED bifpnVarsButPc

\* a forward call of the trained unit
TrainedCall ==
  /\ \E inputs \in AlignedInputs(ff) : fcall' = FusionRecord(ff, inputs)
  /\ pc' = "called"
  /\ UNCHANGED <<ff, rcall>>
  /\ UNCHANGED bifpnVarsButPc

NextTrain == Train \/ TrainedCall

SpecTrain == InitFusion /\ [][NextTrain]_vars

\* ------------------------------------------------------------- properties
H(m) == m.shape[2]
W(m) == m.shape[3]
C(m) == m.shape[4]
SameSize(a, b) == H(a) = H(b) /\ W(a) = W(b)

\* a valid pyramid for the model: five maps of the configured channel count
ValidPyramid(p) ==
  /\ Len(p) = 5
  /\ \A i \in 1..5 : IsMap(p[i]) /\ C(p[i]) = model.features
BlockInputs == [i \in 1..5 |-> loc[InputNames[i]]]

\* C1: a BiFPNBlock call on a valid pyramid does not raise and returns
\* exactly five feature maps, output level i having the height and width of
\* input level i.
C1_BlockPreservesResolution ==
  (pc \in {"block", "block_ret", "raised"} /\ ValidPyramid(BlockInputs)) =>
    /\ pc # "raised"
    /\ pc = "block_ret" =>
         LET o == BlockReturnValue(loc)
         IN /\ Len(o) = 5
            /\ \A i \in 1..5 : IsMap(o[i]) /\ SameSize(o[i], BlockInputs[i])

C1_Witness ==
  /\ pc = "block_ret"
  /\ ValidPyramid(BlockInputs)
  /\ H(loc["P3"]) # H(loc["P7"])
  /\ H(loc["P6"]) # W(loc["P6"])
  /\ SameSize(loc["P7_out"], loc["P7"])

\* C2: a BiFPN fed a valid pyramid returns (it does not raise) a pyramid of
\* five maps whose shapes (batch, height, width, channels) are those of the
\* input, level by level.
C2_BiFPNPreservesShapes ==
  (pc \in {"done", "raised"} /\ ValidPyramid(pyr_in)) =>
    /\ pc = "done"
    /\ Len(ret) = 5
    /\ \A i \in 1..5 : ret[i].shape = pyr_in[i].shape

C2_Witness ==
  /\ pc = "done"
  /\ ValidPyramid(pyr_in)
  /\ Len(model.blocks) = MaxBlocks
  /\ ret # pyr_in
  /\ H(pyr_in[1]) # H(pyr_in[5])
  /\ \A i \in 1..5 : ret[i].shape = pyr_in[i].shape

\* blocks applied one after the other, each to the previous one's output
RECURSIVE ApplyInOrder(_, _)
ApplyInOrder(blocks, inputs) ==
  IF blocks = <<>> THEN inputs
  ELSE ApplyInOrder(Tail(blocks), BiFPNBlockCall(Head(blocks), inputs))

\* C3: BiFPN.call applies its blocks in construction order, each exactly
\* once, block k's output being block k+1's input, and returns the last
\* block's output; with two blocks the result is that of a one-block model
\* followed by a second single block of the same weights.
C3_SequentialComposition ==
  pc = "done" =>
    /\ blk = Len(model.blocks)
    /\ applied = [k \in 1..Len(model.blocks) |-> model.blocks[k].ff_6_td.uid]
    /\ ret = ApplyInOrder(model.blocks, pyr_in)
    /\ Len(model.blocks) = 2 =>
         ret = BiFPNBlockCall(model.blocks[2],
                              BiFPNBlockCall(model.blocks[1], pyr_in))

C3_Witness ==
  /\ pc = "done"
  /\ Len(model.blocks) = 2
  /\ ValidPyramid(pyr_in)
  /\ applied = <<model.blocks[1].ff_6_td.uid, model.blocks[2].ff_6_td.uid>>
  /\ ret # BiFPNBlockCall(model.blocks[1], pyr_in)
  /\ ret = BiFPNBlockCall(model.blocks[2], BiFPNBlockCall(model.blocks[1], pyr_in))

\* the eight fusions in the order the claim gives them
ExpectedFusions ==
  << Stmt("P6_td", "ff_6_td", <<"P6", "P7">>),
     Stmt("P5_td", "ff_5_td", <<"P5", "P6_td">>),
     Stmt("P4_td", "ff_4_td", <<"P4", "P5_td">>),
     Stmt("P3_out", "ff_3_out", <<"P3", "P4_td">>),
     Stmt("P4_out", "ff_4_out", <<"P4", "P4_td", "P3_out">>),
     Stmt("P5_out", "ff_5_out", <<"P5", "P5_td", "P4_out">>),
     Stmt("P6_out", "ff_6_out", <<"P6", "P6_td", "P5_out">>),
     Stmt("P7_out", "ff_7_out", <<"P7", "P6_td">>) >>
TopDownNames == {"P6_td", "P5_td", "P4_td"}
BottomUpNames == {"P3_out", "P4_out", "P5_out", "P6_out", "P7_out"}

\* C9: one BiFPNBlock call makes exactly the eight fusions of the claim, in
\* that order, each by its own unit called once on operands already
\* computed, the three top-down results before any bottom-up result, and
\* returns (P3_out, P4_out, P5_out, P6_out, P7_out).
C9_EightFusionsInOrder ==
  /\ pc \in {"block", "block_ret"} =>
       LET self == model.blocks[blk]
       IN /\ Len(calls) <= 8
          /\ \A j \in 1..Len(calls) :
               LET e == ExpectedFusions[j]
               IN /\ calls[j].unit = e.unit
                  /\ calls[j].uid = self[e.unit].uid
                  /\ calls[j].inputs = [i \in 1..Len(e.args) |-> loc[e.args[i]]]
                  /\ \A i \in 1..Len(e.args) : IsMap(calls[j].inputs[i])
                  /\ loc[e.target] = calls[j].out
                  /\ calls[j].out = FF(self[e.unit], calls[j].inputs)
          /\ \A j, k \in 1..Len(calls) : j # k => calls[j].uid # calls[k].uid
          /\ (\E n \in BottomUpNames : loc[n] # None) =>
               (\A n \in TopDownNames : loc[n] # None)
          /\ pc = "block_ret" => Len(calls) = 8
  /\ (pc = "loop" /\ blk > 0) =>
       x = <<loc["P3_out"], loc["P4_out"], loc["P5_out"], loc["P6_out"], loc["P7_out"]>>

C9_Witness ==
  /\ pc = "loop"
  /\ blk = 2
  /\ Len(calls) = 8
  /\ calls[8].unit = "ff_7_out"
  /\ calls[8].inputs = <<loc["P7"], loc["P6_td"]>>
  /\ loc["P5_td"] # loc["P6_td"]
  /\ x[5] = loc["P7_out"]

\* the size each unit is said to be built with
ClaimedSize(unit) ==
  IF unit \in {"ff_4_out", "ff_5_out", "ff_6_out"} THEN 3 ELSE 2

\* C10: in every FastFusion call a block makes on a valid pyramid, the
\* number of inputs is the size the unit was built with (2 or 3 as the claim
\* lists), and every input but the last has the first input's height and
\* width.
C10_FusionPreconditions ==
  (pc \in {"block", "block_ret", "raised"} /\ ValidPyramid(BlockInputs)) =>
    \A j \in 1..Len(calls) :
      /\ calls[j].size = ClaimedSize(calls[j].unit)
      /\ Len(calls[j].inputs) = calls[j].size
      /\ \A i \in 1..(Len(calls[j].inputs) - 1) :
           SameSize(calls[j].inputs[i], calls[j].inputs[1])

C10_Witness ==
  /\ pc = "block_ret"
  /\ ValidPyramid(BlockInputs)
  /\ Len(calls) = 8
  /\ \E j \in 1..8 :
       /\ calls[j].size = 3
       /\ Len(calls[j].inputs) = 3
       /\ ~SameSize(calls[j].inputs[3], calls[j].inputs[1])
       /\ SameSize(calls[j].inputs[2], calls[j].inputs[1])

\* the call's preconditions as the claim states them: as many inputs as the
\* unit fuses, all but the last of the first one's height and width
SizedAndAligned ==
  /\ Len(fcall.args0) = ff.size
  /\ \A i \in 1..(Len(fcall.args0) - 1) : SameSize(fcall.args0[i], fcall.args0[1])

\* the result the claim promises: one map of F channels, sized as the first input
FusedAsPromised ==
  /\ IsMap(fcall.out)
  /\ C(fcall.out) = ff.conv.filters
  /\ SameSize(fcall.out, fcall.args0[1])

\* C4 as claimed: the promised result whatever the inputs' channel counts.
C4_AnyChannels ==
  (pc = "called" /\ SizedAndAligned) => FusedAsPromised

\* C4 amended: a FastFusion(size=N, features=F) call on N inputs of one batch
\* size, whose inputs other than the last have the first input's height and
\* width and F channels, yields one map of F channels with the first input's
\* height and width, whatever the last input's channel count and size.
C4_FusionOutputShape ==
  ( /\ pc = "called"
    /\ SizedAndAligned
    /\ \A i \in 1..(Len(fcall.args0) - 1) : C(fcall.args0[i]) = ff.conv.filters
    /\ \A i \in 1..Len(fcall.args0) :
         fcall.args0[i].shape[1] = fcall.args0[1].shape[1] )
  => FusedAsPromised

C4_Witness ==
  /\ pc = "called"
  /\ ff.size = 3
  /\ SizedAndAligned
  /\ \A i \in 1..2 : C(fcall.args0[i]) = ff.conv.filters
  /\ \A i \in 1..3 : fcall.args0[i].shape[1] = fcall.args0[1].shape[1]
  /\ C(fcall.args0[3]) # ff.conv.filters
  /\ ~SameSize(fcall.args0[3], fcall.args0[1])
  /\ FusedAsPromised

\* C5: Resize.call on any map and any reference shape (B, H, W, C) returns a
\* map of height H, width W and F channels; its local x, the resized image
\* before projection, has height H, width W and the input's channel count.
C5_ResizeShape ==
  pc = "resized" =>
    /\ H(rcall.out) = rcall.target_dim[2]
    /\ W(rcall.out) = rcall.target_dim[3]
    /\ C(rcall.out) = ff.resize.pixel_wise.filters
    /\ rcall.out.shape[1] = rcall.images.shape[1]
    /\ rcall.x.shape = <<rcall.images.shape[1], rcall.target_dim[2],
                         rcall.target_dim[3], C(rcall.images)>>

C5_Witness ==
  /\ pc = "resized"
  /\ H(rcall.images) # rcall.target_dim[2]
  /\ W(rcall.images) # rcall.target_dim[3]
  /\ rcall.target_dim[2] # rcall.target_dim[3]
  /\ C(rcall.images) # ff.resize.pixel_wise.filters
  /\ rcall.target_dim[4] # ff.resize.pixel_wise.filters
  /\ C(rcall.out) = ff.resize.pixel_wise.filters

\* C6: in a FastFusion call, whatever the weights, w_sum is EPSILON plus the
\* sum of the activated weights, is at least EPSILON and not zero, and the
\* division by it yields a number.
C6_DenominatorAtLeastEpsilon ==
  pc = "called" =>
    /\ fcall.w_sum = EPSILON + SeqSum(fcall.w)
    /\ fcall.w_sum >= EPSILON
    /\ fcall.w_sum # 0
    /\ IsMap(fcall.out) => fcall.out.id # NaN

C6_Witness ==
  /\ pc = "called"
  /\ \A i \in 1..ff.size : ff.w[i] <= 0
  /\ \E i \in 1..ff.size : ff.w[i] < 0
  /\ \E i \in 1..ff.size : ff.w[i] = 0
  /\ fcall.w_sum = EPSILON
  /\ IsMap(fcall.out)

\* C7: after any training updates of the raw weights, every activated weight
\* a FastFusion call scales an input by is >= 0 (one weight per input fused).
C7_ActivatedWeightsNonNegative ==
  pc = "called" =>
    /\ Len(fcall.w) = ff.size
    /\ \A i \in 1..Len(fcall.w) : fcall.w[i] >= 0

C7_Witness ==
  /\ pc = "called"
  /\ \A seed \in Seeds : ff.w # WInit(ff.size, ff.uid, seed)
  /\ \E i \in 1..ff.size : ff.w[i] < 0 /\ fcall.w[i] = 0
  /\ \E i \in 1..ff.size : ff.w[i] > 0 /\ fcall.w[i] = ff.w[i]

\* C8 as claimed: after a FastFusion call the list the caller passed holds
\* the same feature maps in the same positions as before the call.
C8_ArgumentsUntouched ==
  pc = "called" => fcall.args = fcall.args0

====
